---- MODULE Spec2Model ----
(***************************************************************************)
(* Unitary simulator (src/src/lib.rs) with its matrix, gate and            *)
(* index-embedding helpers, as a state machine.                            *)
(*                                                                         *)
(* Numbers.  A Complex is a record [re, im] of integers: exact arithmetic  *)
(* stands for the f64 parts, so the 1e-12 tolerance of Complex::eq is      *)
(* plain equality.  Angles are counted in quarter turns (units of pi/2);   *)
(* cos(theta/2) and sin(theta/2) are exact in units of 1/sqrt(2) when      *)
(* theta is an odd number of quarter turns, so such a gate is carried      *)
(* multiplied by sqrt(2) (the Hadamard is [[1,1],[1,-1]]).                 *)
(*                                                                         *)
(* Indices are 0-based as in the source; a Vec is a sequence, so element   *)
(* k of the source is element k+1 here.                                    *)
(***************************************************************************)
EXTENDS Integers, Sequences, FiniteSets, TLC

\* ------------------------------------------------------------------ bounds
MaxQubits == 3
MaxOps == 2
MaxRuns == 2

\* ------------------------------------------------------------ complex.rs
CNew(re, im) == [re |-> re, im |-> im]
CZero == CNew(0, 0)
COne == CNew(1, 0)
CI == CNew(0, 1)
CAdd(a, b) == CNew(a.re + b.re, a.im + b.im)
CMul(a, b) == CNew(a.re * b.re - a.im * b.im, a.re * b.im + a.im * b.re)
CMulReal(a, r) == CNew(a.re * r, a.im * r)
CNeg(a) == CNew(-a.re, -a.im)

\* f64::cos / f64::sin of k quarter turns
CosQ(k) == CASE k % 4 = 0 -> 1 [] k % 4 = 1 -> 0 [] k % 4 = 2 -> -1 [] OTHER -> 0
SinQ(k) == CASE k % 4 = 0 -> 0 [] k % 4 = 1 -> 1 [] k % 4 = 2 -> 0 [] OTHER -> -1
\* Complex::exp of a purely imaginary number i*angle, angle = k quarter turns
CExpI(k) == CMulReal(CNew(CosQ(k), SinQ(k)), 1)
\* f64::cos(theta/2), f64::sin(theta/2) for theta = t quarter turns,
\* in units of 1/sqrt(2) when t is odd
HalfCos(t) == CASE t % 4 = 0 -> 1 [] t % 4 = 1 -> 1 [] t % 4 = 2 -> 0 [] OTHER -> -1
HalfSin(t) == CASE t % 4 = 0 -> 0 [] t % 4 = 1 -> 1 [] t % 4 = 2 -> 1 [] OTHER -> 1

\* ------------------------------------------------------------- matrix.rs
Pow2(n) == 2 ^ n

\* A Vec<T> holding the given elements (as a sequence held by value)
Vec(elements) == SubSeq(elements, 1, Len(elements))
\* Matrix { size, elements }
MatrixOf(size, elements) == [size |-> size, elements |-> Vec(elements)]
\* Matrix::new / new_from_value
NewFromValue(size, value) == MatrixOf(size, [p \in 1..(size * size) |-> value])
\* Matrix::get(i, j): row-major
Get(m, i, j) == m.elements[i * m.size + j + 1]
\* Matrix::set(i, j, value)
Set(m, i, j, value) == MatrixOf(m.size, [m.elements EXCEPT ![i * m.size + j + 1] = value])
\* impl Index<(usize,usize)>: m[(x, y)]
Index(m, x, y) == m.elements[x + y * m.size + 1]
\* impl IndexMut<(usize,usize)>: m[(x, y)] = value
IndexMut(m, x, y, value) == MatrixOf(m.size, [m.elements EXCEPT ![x + y * m.size + 1] = value])
\* Matrix::approx_eq
ApproxEq(m, other) ==
    IF m.size # other.size THEN FALSE
    ELSE \A i \in 0..(m.size - 1), c \in 0..(m.size - 1) : Get(m, i, c) = Get(other, i, c)
\* impl PartialEq for Matrix: eq, once assert_eq!(self.size, other.size) held
Eq(m, other) == \A i \in 0..(m.size - 1) : m.elements[i + 1] = other.elements[i + 1]
\* Matrix::identity
Identity(size, zero, one) ==
    MatrixOf(size, [p \in 1..(size * size) |->
                        IF (p - 1) \div size = (p - 1) % size THEN one ELSE zero])
\* f64::sqrt(len as f64) as usize
ISqrt(n) == CHOOSE s \in 0..n : s * s <= n /\ (s + 1) * (s + 1) > n
\* Matrix::new_from_row_slice, for a slice of perfect-square length:
\* element i of the slice is set at (i / size, i % size)
NewFromRowSlice(slice) ==
    LET size == ISqrt(Len(slice))
    IN MatrixOf(size, [p \in 1..(size * size) |-> slice[p]])
\* as_slice reading the cells column by column
AsSliceByColumns(m) ==
    Vec([p \in 1..(m.size * m.size) |-> Get(m, (p - 1) % m.size, (p - 1) \div m.size)])
\* Matrix::as_slice
AsSlice(m) == m.elements

\* Matrix::kronecker: the four loops run col1, col2, row1, row2 and write
\* res.elements[offset] with offset counting the iterations.
Kronecker(a, b) ==
    LET sa == a.size
        sb == b.size
    IN MatrixOf(sa * sb,
         [p \in 1..(sa * sb * sa * sb) |->
            LET offset == p - 1
                row2 == offset % sb
                row1 == (offset \div sb) % sa
                col2 == (offset \div (sb * sa)) % sb
                col1 == offset \div (sb * sa * sb)
            IN CMul(Get(a, row1, col1), Get(b, row2, col2))])

RECURSIVE DotRow(_, _, _, _, _)
\* val = val + self.get(i, k) * rhs.get(k, j) for k in from..size-1
DotRow(a, b, i, j, k) ==
    IF k = 0 THEN CZero
    ELSE CAdd(DotRow(a, b, i, j, k - 1), CMul(Get(a, i, k - 1), Get(b, k - 1, j)))

\* Mul with val overwritten, not accumulated: only the last product is kept
MatMulLastTerm(a, b) ==
    MatrixOf(a.size, [p \in 1..(a.size * a.size) |->
                        CMul(Get(a, (p - 1) \div a.size, a.size - 1),
                             Get(b, a.size - 1, (p - 1) % a.size))])
\* impl Mul for &Matrix<Complex> (Complex x Complex)
MatMul(a, b) ==
    MatrixOf(a.size, [p \in 1..(a.size * a.size) |->
                        DotRow(a, b, (p - 1) \div a.size, (p - 1) % a.size, a.size)])

RECURSIVE DotRowReal(_, _, _, _, _)
DotRowReal(a, b, i, j, k) ==
    IF k = 0 THEN CZero
    ELSE CAdd(DotRowReal(a, b, i, j, k - 1), CMulReal(Get(a, i, k - 1), Get(b, k - 1, j)))

\* impl Mul<&Matrix<f64>> for &Matrix<Complex> (Complex x f64)
MatMulMixed(a, b) ==
    MatrixOf(a.size, [p \in 1..(a.size * a.size) |->
                        DotRowReal(a, b, (p - 1) \div a.size, (p - 1) % a.size, a.size)])

RECURSIVE DotRowRealLeft(_, _, _, _, _)
DotRowRealLeft(a, b, i, j, k) ==
    IF k = 0 THEN CZero
    ELSE CAdd(DotRowRealLeft(a, b, i, j, k - 1), CMulReal(Get(b, k - 1, j), Get(a, i, k - 1)))

\* impl Mul<&Matrix<Complex>> for &Matrix<f64> (f64 x Complex)
MatMulRealLeft(a, b) ==
    MatrixOf(a.size, [p \in 1..(a.size * a.size) |->
                        DotRowRealLeft(a, b, (p - 1) \div a.size, (p - 1) % a.size, a.size)])

\* --------------------------------------------------------------- gate.rs
\* f64::log2(len as f64) as usize
FloorLog2(n) == CHOOSE l \in 0..n : Pow2(l) <= n /\ n < Pow2(l + 1)
\* Gate::from_slice
GateFromSlice(array) == [size |-> FloorLog2(Len(array)), matrix |-> NewFromRowSlice(array)]

\* ----------------------------------------------------- simulatortools.rs
\* index1(b, i, k): lowbits = k & ((1 << i) - 1);
\* ((((k >> i) << 1) | b) << i) | lowbits, with b a single bit
\* bit i overwritten with b, the bits above it left where they are
index1_overwrite(b, i, k) ==
    LET lowbits == k % Pow2(i)
    IN ((((k \div Pow2(i + 1)) * 2) + b) * Pow2(i)) + lowbits
index1(b, i, k) ==
    LET lowbits == k % Pow2(i)
    IN ((((k \div Pow2(i)) * 2) + b) * Pow2(i)) + lowbits

\* index2 with the larger position not lowered by one for the first insertion
index2_no_shift(b1, i1, b2, i2, k) ==
    IF i1 > i2 THEN index1(b2, i2, index1(b1, i1, k))
               ELSE index1(b1, i1, index1(b2, i2, k))
\* index2(b1, i1, b2, i2, k), called with i1 # i2 (assert!(i1 != i2))
index2(b1, i1, b2, i2, k) ==
    IF i1 > i2 THEN index1(b2, i2, index1(b1, i1 - 1, k))
               ELSE index1(b1, i1, index1(b2, i2 - 1, k))

\* enlarge_single_opt with the two identities exchanged (qubits counted
\* from the most significant end)
enlarge_single_opt_reversed(gate, qubit, number_of_qubits) ==
    LET dim == Pow2(number_of_qubits - qubit - 1)
        dim2 == Pow2(qubit)
        temp1 == Identity(dim, CZero, COne)
        temp2 == Identity(dim2, CZero, COne)
    IN Kronecker(temp2, Kronecker(gate.matrix, temp1))

\* enlarge_single_opt
enlarge_single_opt(gate, qubit, number_of_qubits) ==
    LET dim == Pow2(number_of_qubits - qubit - 1)
        dim2 == Pow2(qubit)
        temp1 == Identity(dim, CZero, COne)
        temp2 == Identity(dim2, CZero, COne)
    IN Kronecker(temp1, Kronecker(gate.matrix, temp2))

\* Iteration t of the five nested loops of enlarge_two_opt (i outermost,
\* then j, k, jj, kk): the cell it writes through IndexMut, and the value
LoopI(t) == t \div 16
LoopJ(t) == (t \div 8) % 2
LoopK(t) == (t \div 4) % 2
LoopJJ(t) == (t \div 2) % 2
LoopKK(t) == t % 2
\* enlarge_gate[(x, y)] is elements[x + y * size]
WrittenCell(qubit0, qubit1, num, t) ==
    index2(LoopJ(t), qubit0, LoopK(t), qubit1, LoopI(t))
    + index2(LoopJJ(t), qubit0, LoopKK(t), qubit1, LoopI(t)) * Pow2(num)
\* the gate read by get(row, col) instead of through Index
WrittenValueByGet(gate, t) ==
    Get(gate.matrix, LoopJ(t) + 2 * LoopK(t), LoopJJ(t) + 2 * LoopKK(t))
\* gate[(j + 2 * k, jj + 2 * kk)]
WrittenValue(gate, t) ==
    Index(gate.matrix, LoopJ(t) + 2 * LoopK(t), LoopJJ(t) + 2 * LoopKK(t))

\* enlarge_two_opt, for num >= 2: a matrix of 0.0 in which every iteration
\* overwrites one cell; a cell holds what the last iteration writing it left
enlarge_two_opt(gate, qubit0, qubit1, num) ==
    LET iterations == 0..(16 * Pow2(num - 2) - 1)
        cell == [t \in iterations |-> WrittenCell(qubit0, qubit1, num, t)]
    IN MatrixOf(Pow2(num),
         [p \in 1..(Pow2(num) * Pow2(num)) |->
            LET writers == {t \in iterations : cell[t] = p - 1}
            IN IF writers = {} THEN 0
               ELSE WrittenValue(gate, CHOOSE t \in writers : \A u \in writers : u <= t)])

\* ----------------------------------------------------------------- lib.rs
VARIABLES
    input,                 \* what the circuit front-end hands to new()
    circuit,               \* UnitarySimulator.circuit
    number_of_qubits,      \* UnitarySimulator.number_of_qubits
    number_of_operations,  \* UnitarySimulator.number_of_operations
    unitary_state,         \* UnitarySimulator.unitary_state
    result,                \* UnitarySimulator.result
    pc,                    \* where the caller is: new, failed, ready, running, returned
    j,                     \* loop variable of run()
    returns,               \* the results run() has returned so far, in order
    call,                  \* a call of a library function: its name and arguments
    ret                    \* what that call returned, or that it panicked

vars == <<input, circuit, number_of_qubits, number_of_operations, unitary_state,
          result, pc, j, returns, call, ret>>
\* the variables of a library call, which the engine leaves alone
lib == <<call, ret>>

\* A call: the function and its arguments, each kind of argument in a
\* field of its own (those the function does not take are left empty):
\* slice a &[Complex], m the matrix the method is called on, other a second
\* matrix, ints the usize and f64 arguments in order (a Vec gives all of
\* ints), gate a Gate<f64>, z a Complex
CallOf(fn, slice, m, other, ints, gate, z) ==
    [fn |-> fn, slice |-> slice, m |-> m, other |-> other, ints |-> ints,
     gate |-> gate, z |-> z]
EmptyMatrix == MatrixOf(0, <<>>)
EmptyGate == [size |-> 0, matrix |-> EmptyMatrix]
\* no library call is being made
NoCall == CallOf("none", <<>>, EmptyMatrix, EmptyMatrix, <<>>, EmptyGate, CZero)
\* outcomes of a call: not yet returned, panicked (a failed assert! or an
\* index out of bounds), or returned with a value
Pending == [status |-> "pending"]
Panic == [status |-> "panic"]
Ok(value) == [status |-> "ok", value |-> value]

\* A count for which serde_json's as_u64() is None (absent, or not a
\* non-negative integer)
Malformed == -1
DefaultQubits == 5
DefaultOperations == 0

\* (theta, phi, lambda) of the U operations of the input, in quarter turns
Params == {<<1, 0, 2>>, <<1, 1, 0>>}
NoParams == <<0, 0, 0>>

OpU(q, p) == [name |-> "U", qubit_indices |-> <<q>>, params |-> p]
OpCX(c, t) == [name |-> "CX", qubit_indices |-> <<c, t>>, params |-> NoParams]
OpOther(nm) == [name |-> nm, qubit_indices |-> <<0>>, params |-> NoParams]
\* serde_json: indexing past the end of the array gives Null, whose name
\* prints as null
NullOp == OpOther("null")

\* The operations the front-end can emit for n qubits, qubit indices in range
Ops(n) ==
    {OpU(q, p) : q \in 0..(n - 1), p \in Params}
    \cup {OpCX(ct[1], ct[2]) : ct \in {x \in (0..(n - 1)) \X (0..(n - 1)) : x[1] # x[2]}}
    \cup {OpOther(nm) : nm \in {"measure", "reset", "barrier", "snapshot"}}

Lists(n, len) == UNION {[1..k -> Ops(n)] : k \in 0..len}

CircuitOf(n, m, qasm) ==
    [number_of_qubits |-> n, number_of_operations |-> m, qasm |-> qasm]

\* The longest list tried on n qubits: MaxOps, one operation fewer for
\* every qubit beyond two (the matrices have 4^n cells)
MaxLen(n) == IF n <= 2 THEN MaxOps ELSE MaxOps - (n - 2)

\* Circuits as the front-end emits them: counts present, the operation
\* count equal to the length of the list
WellFormed ==
    UNION {{CircuitOf(n, Len(q), q) : q \in Lists(n, MaxLen(n))} : n \in 1..MaxQubits}
\* Circuits whose qubit count or operation count is missing or malformed
\* (those without a qubit count carry no gate: they run on 32 x 32 matrices)
BadCounts ==
    {CircuitOf(Malformed, m, q) :
        m \in {Malformed, 1, 2},
        q \in {<<OpOther("measure")>>, <<OpOther("reset"), OpOther("snapshot")>>}}
    \cup UNION {{CircuitOf(n, Malformed, q) : q \in Lists(n, 1)} : n \in 1..MaxQubits}
\* Circuits whose operation count exceeds the list
ShortLists ==
    UNION {{CircuitOf(n, Len(q) + 1, q) : q \in Lists(n, 1)} : n \in 1..MaxQubits}

Inputs == [ok : {TRUE}, circuit : WellFormed \cup BadCounts \cup ShortLists]
          \cup {[ok |-> FALSE, circuit |-> CircuitOf(Malformed, Malformed, <<>>)]}

NoEngineCircuit == CircuitOf(Malformed, Malformed, <<>>)
EmptyObject == [tag |-> "object", items |-> <<>>]
JsonArray(items) == [tag |-> "array", items |-> items]
\* result as new() builds it
InitialResult == [data |-> [unitary |-> EmptyObject], result |-> "{}", status |-> "{}"]

Init ==
    /\ input \in Inputs
    /\ circuit = NoEngineCircuit
    /\ number_of_qubits = 0
    /\ number_of_operations = 0
    /\ unitary_state = MatrixOf(0, <<>>)
    /\ result = InitialResult
    /\ pc = "new"
    /\ j = 0
    /\ returns = <<>>
    /\ call = NoCall
    /\ ret = Pending

\* as_u64() falling back to 0 whatever the default
AsU64OrZero(v, default) == IF v \in Nat THEN v ELSE 0
\* circuit["..."].as_u64() with its default
AsU64Or(v, default) == IF v \in Nat THEN v ELSE default

\* UnitarySimulator::new, the front-end failing (the ? operator returns Err)
NewFails ==
    /\ pc = "new"
    /\ ~input.ok
    /\ pc' = "failed"
    /\ UNCHANGED lib
    /\ UNCHANGED <<input, circuit, number_of_qubits, number_of_operations,
                   unitary_state, result, j, returns>>

\* UnitarySimulator::new
New ==
    /\ pc = "new"
    /\ input.ok
    /\ circuit' = input.circuit
    /\ result' = InitialResult
    /\ number_of_qubits' = AsU64Or(input.circuit.number_of_qubits, DefaultQubits)
    /\ number_of_operations' = AsU64Or(input.circuit.number_of_operations, DefaultOperations)
    /\ unitary_state' = Identity(Pow2(number_of_qubits'), CZero, COne)
    /\ pc' = "ready"
    /\ UNCHANGED lib
    /\ UNCHANGED <<input, j, returns>>

\* The U arm's gate: Gate::<Complex>::from_slice(&[...]) of theta, phi, lam
UGate(theta, phi, lam) ==
    GateFromSlice(<<CNew(HalfCos(theta), 0),
                    CMul(CNeg(CExpI(lam)), CNew(HalfSin(theta), 0)),
                    CMul(CExpI(phi), CNew(HalfSin(theta), 0)),
                    CMul(CExpI(phi + lam), CNew(HalfCos(theta), 0))>>)

\* The CX arm's gate: Gate::<f64>::from_slice(&[...])
\* impl Index<(usize,usize)> for Gate: gate[(x, y)]
GateIndex(gate, x, y) == Index(gate.matrix, x, y)
\* impl IndexMut<(usize,usize)> for Gate: gate[(x, y)] = value
GateIndexMut(gate, x, y, value) ==
    [size |-> gate.size, matrix |-> IndexMut(gate.matrix, x, y, value)]

\* a controlled-NOT whose control is the second qubit of the pair
CXGateControlledBySecond ==
    GateFromSlice(<<1, 0, 0, 0,
                    0, 1, 0, 0,
                    0, 0, 0, 1,
                    0, 0, 1, 0>>)
CXGate ==
    GateFromSlice(<<1, 0, 0, 0,
                    0, 0, 0, 1,
                    0, 0, 1, 0,
                    0, 1, 0, 0>>)

\* add_unitary_single: the new unitary_state
add_unitary_single(state, gate, qubit, n) ==
    LET unitary_add == enlarge_single_opt(gate, qubit, n)
    IN MatMul(unitary_add, state)

\* add_unitary_two: the new unitary_state
add_unitary_two(state, gate, qubit0, qubit1, n) ==
    LET unitary_add == enlarge_two_opt(gate, qubit0, qubit1, n)
    IN MatMulMixed(state, unitary_add)

\* self.circuit["qasm"][j]
CQasm(c, k) == IF k < Len(c.qasm) THEN c.qasm[k + 1] ELSE NullOp

\* the names run() has a match arm for
Recognized == {"U", "CX", "measure", "reset"}

\* run(): entering the for loop
RunBegin ==
    /\ pc \in {"ready", "returned"}
    /\ Len(returns) < MaxRuns
    /\ pc' = "running"
    /\ j' = 0
    /\ UNCHANGED lib
    /\ UNCHANGED <<input, circuit, number_of_qubits, number_of_operations,
                   unitary_state, result, returns>>

\* run(): one iteration, the "U" arm
ApplyU ==
    /\ pc = "running"
    /\ j < number_of_operations
    /\ CQasm(circuit, j).name = "U"
    /\ LET c_qasm == CQasm(circuit, j)
           gate == UGate(c_qasm.params[1], c_qasm.params[2], c_qasm.params[3])
       IN unitary_state' = add_unitary_single(unitary_state, gate,
                                              c_qasm.qubit_indices[1], number_of_qubits)
    /\ j' = j + 1
    /\ UNCHANGED lib
    /\ UNCHANGED <<input, circuit, number_of_qubits, number_of_operations,
                   result, pc, returns>>

\* run(): one iteration, the "CX" arm
ApplyCX ==
    /\ pc = "running"
    /\ j < number_of_operations
    /\ CQasm(circuit, j).name = "CX"
    /\ LET c_qasm == CQasm(circuit, j)
       IN unitary_state' = add_unitary_two(unitary_state, CXGate,
                                           c_qasm.qubit_indices[1],
                                           c_qasm.qubit_indices[2], number_of_qubits)
    /\ j' = j + 1
    /\ UNCHANGED lib
    /\ UNCHANGED <<input, circuit, number_of_qubits, number_of_operations,
                   result, pc, returns>>

\* a run() without the "measure" arm: the operation falls to the default arm
DropMeasureStops ==
    /\ pc = "running"
    /\ j < number_of_operations
    /\ CQasm(circuit, j).name = "measure"
    /\ result' = [result EXCEPT !.status = "ERROR"]
    /\ returns' = Append(returns, result')
    /\ pc' = "returned"
    /\ UNCHANGED lib
    /\ UNCHANGED <<input, circuit, number_of_qubits, number_of_operations,
                   unitary_state, j>>

\* run(): one iteration, the "measure" arm
DropMeasure ==
    /\ pc = "running"
    /\ j < number_of_operations
    /\ CQasm(circuit, j).name = "measure"
    /\ j' = j + 1
    /\ UNCHANGED lib
    /\ UNCHANGED <<input, circuit, number_of_qubits, number_of_operations,
                   unitary_state, result, pc, returns>>

\* run(): one iteration, the "reset" arm
DropReset ==
    /\ pc = "running"
    /\ j < number_of_operations
    /\ CQasm(circuit, j).name = "reset"
    /\ j' = j + 1
    /\ UNCHANGED lib
    /\ UNCHANGED <<input, circuit, number_of_qubits, number_of_operations,
                   unitary_state, result, pc, returns>>

\* a default arm that records the error and goes on with the loop
UnknownGateContinues ==
    /\ pc = "running"
    /\ j < number_of_operations
    /\ CQasm(circuit, j).name \notin Recognized
    /\ result' = [result EXCEPT !.status = "ERROR"]
    /\ j' = j + 1
    /\ UNCHANGED lib
    /\ UNCHANGED <<input, circuit, number_of_qubits, number_of_operations,
                   unitary_state, pc, returns>>

\* a run() with a "barrier" arm that ignores the operation
UnknownGateSkipsBarrier ==
    /\ pc = "running"
    /\ j < number_of_operations
    /\ CQasm(circuit, j).name \notin Recognized
    /\ IF CQasm(circuit, j).name = "barrier"
       THEN /\ j' = j + 1
            /\ UNCHANGED <<result, returns, pc>>
       ELSE /\ result' = [result EXCEPT !.status = "ERROR"]
            /\ returns' = Append(returns, result')
            /\ pc' = "returned"
            /\ j' = j
    /\ UNCHANGED lib
    /\ UNCHANGED <<input, circuit, number_of_qubits, number_of_operations,
                   unitary_state>>

\* a default arm that stores the unitary composed so far in the result
UnknownGateLeaksUnitary ==
    /\ pc = "running"
    /\ j < number_of_operations
    /\ CQasm(circuit, j).name \notin Recognized
    /\ result' = [result EXCEPT !.data.unitary = JsonArray(AsSlice(unitary_state)),
                                !.status = "ERROR"]
    /\ returns' = Append(returns, result')
    /\ pc' = "returned"
    /\ UNCHANGED lib
    /\ UNCHANGED <<input, circuit, number_of_qubits, number_of_operations,
                   unitary_state, j>>

\* run(): one iteration, the default arm
UnknownGate ==
    /\ pc = "running"
    /\ j < number_of_operations
    /\ CQasm(circuit, j).name \notin Recognized
    /\ result' = [result EXCEPT !.status = "ERROR"]
    /\ returns' = Append(returns, result')
    /\ pc' = "returned"
    /\ UNCHANGED lib
    /\ UNCHANGED <<input, circuit, number_of_qubits, number_of_operations,
                   unitary_state, j>>

\* run(): after the loop
RunFinish ==
    /\ pc = "running"
    /\ j = number_of_operations
    /\ result' = [result EXCEPT !.data.unitary = JsonArray(AsSlice(unitary_state)),
                                !.status = "DONE"]
    /\ returns' = Append(returns, result')
    /\ pc' = "returned"
    /\ UNCHANGED lib
    /\ UNCHANGED <<input, circuit, number_of_qubits, number_of_operations,
                   unitary_state, j>>

RECURSIVE RunLoop(_, _, _, _, _)
\* run(): the iterations k .. nops-1 of the for loop from unitary_state =
\* state; the unitary_state they leave and whether the default arm returned
RunLoop(c, nops, n, state, k) ==
    IF k >= nops THEN [state |-> state, status |-> "DONE"]
    ELSE LET c_qasm == CQasm(c, k)
         IN CASE c_qasm.name = "U" ->
                   RunLoop(c, nops, n,
                           add_unitary_single(state,
                               UGate(c_qasm.params[1], c_qasm.params[2], c_qasm.params[3]),
                               c_qasm.qubit_indices[1], n),
                           k + 1)
              [] c_qasm.name = "CX" ->
                   RunLoop(c, nops, n,
                           add_unitary_two(state, CXGate, c_qasm.qubit_indices[1],
                                           c_qasm.qubit_indices[2], n),
                           k + 1)
              [] c_qasm.name \in {"measure", "reset"} -> RunLoop(c, nops, n, state, k + 1)
              [] OTHER -> [state |-> state, status |-> "ERROR"]

\* run() as a whole on an engine [unitary_state, result]: the engine it leaves
RunOnce(c, nops, n, engine) ==
    LET out == RunLoop(c, nops, n, engine.unitary_state, 0)
    IN [unitary_state |-> out.state,
        result |-> IF out.status = "DONE"
                   THEN [engine.result EXCEPT
                            !.data.unitary = JsonArray(AsSlice(out.state)),
                            !.status = "DONE"]
                   ELSE [engine.result EXCEPT !.status = "ERROR"]]

RECURSIVE RunTimes(_, _, _, _)
\* new() followed by `times` calls of run()
RunTimes(c, nops, n, times) ==
    IF times = 0
    THEN [unitary_state |-> Identity(Pow2(n), CZero, COne), result |-> InitialResult]
    ELSE RunOnce(c, nops, n, RunTimes(c, nops, n, times - 1))

Next ==
    \/ NewFails
    \/ New
    \/ RunBegin
    \/ ApplyU
    \/ ApplyCX
    \/ DropMeasure
    \/ DropReset
    \/ UnknownGate
    \/ RunFinish

Spec == Init /\ [][Next]_vars

\* ---------------------------------------------------------- library calls
\* The functions of matrix.rs, gate.rs, complex.rs and simulatortools.rs
\* called on their own: the arguments are drawn at the start, one step makes
\* the call.
engine == <<input, circuit, number_of_qubits, number_of_operations, unitary_state,
            result, pc, j, returns>>

\* the longest slice handed to a constructor
MaxSliceLen == 16

\* slices of Complex, all elements different
ComplexSlice(len) == [p \in 1..len |-> CNew(p, 0 - p)]
ComplexSlices == {ComplexSlice(len) : len \in 0..MaxSliceLen}

\* a constructor that stops at the last element the matrix has room for
RowSliceTruncates(slice) == TRUE
\* Matrix::new_from_row_slice: every m.set(i / size, i % size, elem), i over
\* the whole slice, stays inside the size * size elements of m (a set
\* outside them panics, index out of bounds)
RowSliceFits(slice) ==
    LET size == ISqrt(Len(slice))
    IN \A i \in 0..(Len(slice) - 1) : (i \div size) * size + (i % size) < size * size

\* Matrix::new_from_row_slice(elements)
CallNewFromRowSlice ==
    /\ call.fn = "new_from_row_slice"
    /\ ret = Pending
    /\ ret' = IF RowSliceFits(call.slice) THEN Ok(NewFromRowSlice(call.slice))
                                            ELSE Panic
    /\ UNCHANGED <<call, engine>>

\* Gate::from_slice(array)
CallFromSlice ==
    /\ call.fn = "from_slice"
    /\ ret = Pending
    /\ ret' = IF RowSliceFits(call.slice) THEN Ok(GateFromSlice(call.slice))
                                            ELSE Panic
    /\ UNCHANGED <<call, engine>>

\* the largest matrix handed to a function, and the number of matrices with
\* all elements different tried per size
MaxDim == 3
MaxSeed == 1

\* m_real![1, 2; 3, 4] and its like: size * size different elements, no
\* symmetry; a seed above 0 gives them imaginary parts
TestMatrix(size, seed) ==
    MatrixOf(size, [p \in 1..(size * size) |-> CNew(seed + p, seed * p)])
GenericMatrices == {TestMatrix(size, seed) : size \in 0..MaxDim, seed \in 0..MaxSeed}
Matrices ==
    GenericMatrices
    \cup {Identity(size, CZero, COne) : size \in 1..MaxDim}
    \cup {NewFromValue(size, COne) : size \in 1..MaxDim}

\* Matrix::kronecker(&self, matrix)
CallKronecker ==
    /\ call.fn = "kronecker"
    /\ ret = Pending
    /\ ret' = Ok(Kronecker(call.m, call.other))
    /\ UNCHANGED <<call, engine>>

\* the cells embed writes: self.set(i + x, i + y, value) for x, y < other.size
EmbedTarget(m, at_i, at_j, x, y) == (at_i + x) * m.size + (at_i + y)
\* Matrix::embed(other, i, j) past its two asserts: self afterwards (at_i
\* and at_j are the i and j of the source)
Embed(m, other, at_i, at_j) ==
    MatrixOf(m.size,
        [p \in 1..(m.size * m.size) |->
            LET writers == {xy \in (0..(other.size - 1)) \X (0..(other.size - 1)) :
                                EmbedTarget(m, at_i, at_j, xy[1], xy[2]) = p - 1}
            IN IF writers = {} THEN m.elements[p]
               ELSE LET last == CHOOSE xy \in writers :
                                   \A w \in writers :
                                       w[1] < xy[1] \/ (w[1] = xy[1] /\ w[2] <= xy[2])
                    IN Get(other, last[1], last[2])])

\* m.embed(other, i, j): assert!(i + other.size <= self.size);
\* assert!(j + other.size <= self.size); the outcome carries self
CallEmbed ==
    /\ call.fn = "embed"
    /\ ret = Pending
    /\ LET m == call.m
           other == call.other
           at_i == call.ints[1]
           at_j == call.ints[2]
       IN ret' = IF at_i + other.size <= m.size /\ at_j + other.size <= m.size
                 THEN Ok(Embed(m, other, at_i, at_j))
                 ELSE Panic
    /\ UNCHANGED <<call, engine>>

RECURSIVE SortVec(_)
\* sorted.sort(): the elements in ascending order
SortVec(v) ==
    IF v = <<>> THEN <<>>
    ELSE LET rest == SortVec(Tail(v))
             k == Cardinality({i \in 1..Len(rest) : rest[i] <= Head(v)})
         IN SubSeq(rest, 1, k) \o <<Head(v)>> \o SubSeq(rest, k + 1, Len(rest))

\* a check that only looks at the range of the indices
PermutationInRange(permutation) ==
    \A i \in 1..Len(permutation) : permutation[i] < Len(permutation)
\* Matrix::permutation_valid
PermutationValid(permutation) ==
    LET sorted == SortVec(permutation)
    IN \A i \in 1..Len(sorted) : sorted[i] = i - 1

\* the rows moved the other way: row permutation[i] of self goes to row i
PermuteRowsInverse(m, permutation) ==
    MatrixOf(m.size,
        [p \in 1..(m.size * m.size) |->
            Get(m, permutation[((p - 1) \div m.size) + 1], (p - 1) % m.size)])
\* Matrix::permute_rows past its asserts: a zero matrix in which
\* m.set(target_i, j, self.get(source_i, j)) runs for source_i = 0, 1, ...
PermuteRows(m, permutation) ==
    MatrixOf(m.size,
        [p \in 1..(m.size * m.size) |->
            LET row == (p - 1) \div m.size
                col == (p - 1) % m.size
                sources == {source_i \in 0..(Len(permutation) - 1) :
                               permutation[source_i + 1] = row}
            IN IF sources = {} THEN CZero
               ELSE Get(m, CHOOSE s \in sources : \A t \in sources : t <= s, col)])
\* Matrix::permute_columns past its asserts
PermuteColumns(m, permutation) ==
    MatrixOf(m.size,
        [p \in 1..(m.size * m.size) |->
            LET row == (p - 1) \div m.size
                col == (p - 1) % m.size
                sources == {source_j \in 0..(Len(permutation) - 1) :
                               permutation[source_j + 1] = col}
            IN IF sources = {} THEN CZero
               ELSE Get(m, row, CHOOSE s \in sources : \A t \in sources : t <= s)])

\* m.permute_rows(permutation): assert_eq!(self.size, permutation.len());
\* assert!(permutation_valid(&permutation))
CallPermuteRows ==
    /\ call.fn = "permute_rows"
    /\ ret = Pending
    /\ ret' = IF call.m.size = Len(call.ints) /\ PermutationValid(call.ints)
              THEN Ok(PermuteRows(call.m, call.ints))
              ELSE Panic
    /\ UNCHANGED <<call, engine>>

\* m.permute_columns(permutation)
CallPermuteColumns ==
    /\ call.fn = "permute_columns"
    /\ ret = Pending
    /\ ret' = IF call.m.size = Len(call.ints) /\ PermutationValid(call.ints)
              THEN Ok(PermuteColumns(call.m, call.ints))
              ELSE Panic
    /\ UNCHANGED <<call, engine>>

\* Vec<usize> arguments: any indices up to MaxDim, any length up to MaxDim
\* (too long or too short for the smaller matrices)
PermutationArgs == UNION {[1..len -> 0..MaxDim] : len \in 0..MaxDim}

\* the most qubits of an operator handed to dot with a vector on its own
MaxOperatorQubits == 2

RECURSIVE DotFold(_, _, _, _)
\* matrix.elements[offset..end].iter().zip(vector.iter())
\*     .fold(Complex::zero(), |acc, (a, b)| acc + *a * *b), offset = row * size:
\* the accumulator after the first k pairs
DotFold(matrix, vector, row, k) ==
    IF k = 0 THEN CZero
    ELSE CAdd(DotFold(matrix, vector, row, k - 1),
              CMulReal(matrix.elements[row * matrix.size + k], vector[k]))

\* Matrix::new_from_vector: assert!(size * size == elements.len())
NewFromVectorAccepts(size, elements) == size * size = Len(elements)
\* Matrix::new_from_vector past its assert: element i is set at
\* (i / size, i % size) of a matrix of size * size elements
NewFromVector(size, elements) ==
    MatrixOf(size, [p \in 1..(size * size) |-> elements[p]])

\* Matrix::dot(matrix, vector): assert_eq!(matrix.size(), vector.len()), one
\* fold per row pushed on v, then Matrix::new_from_vector(sqrt(v.len()), v)
CallDot ==
    /\ call.fn = "dot"
    /\ ret = Pending
    /\ LET matrix == call.m
           vector == call.ints
           v == [row \in 1..matrix.size |-> DotFold(matrix, vector, row - 1, matrix.size)]
           size == ISqrt(Len(v))
       IN ret' = IF matrix.size # Len(vector) THEN Panic
                 ELSE IF ~NewFromVectorAccepts(size, v) THEN Panic
                 ELSE Ok(NewFromVector(size, v))
    /\ UNCHANGED <<call, engine>>

\* operators on 0..MaxOperatorQubits qubits and Vec<f64> arguments
OperatorMatrices ==
    {TestMatrix(Pow2(n), seed) : n \in 0..MaxOperatorQubits, seed \in 0..MaxSeed}
RealVectors ==
    UNION {{[p \in 1..Pow2(n) |-> a + b * p] : a \in 0..1, b \in {0 - 1, 1, 2}} :
              n \in 0..MaxOperatorQubits}

\* The u32 of Complex::pow, scaled: exponents are words of WordBits bits
\* (the source has 32), so that the exponents near the top of the range are
\* within reach
WordBits == 5
WordMax == Pow2(WordBits) - 1
\* the largest exponent tried on a base that is not of norm 1
MaxExponent == 12
\* let optimization = 5
optimization == 5

\* u32::is_power_of_two
IsPowerOfTwo(n) == \E l \in 0..(WordBits - 1) : n = Pow2(l)
\* u32::trailing_zeros, n > 0
TrailingZeros(n) ==
    CHOOSE l \in 0..(WordBits - 1) : n % Pow2(l) = 0 /\ (n \div Pow2(l)) % 2 = 1
\* u32::checked_next_power_of_two: None when it does not fit the word
CheckedNextPowerOfTwo(n) ==
    LET fits == {l \in 0..(WordBits - 1) : Pow2(l) >= n}
    IN IF fits = {} THEN [some |-> FALSE]
       ELSE [some |-> TRUE, value |-> Pow2(CHOOSE l \in fits : \A k \in fits : l <= k)]

RECURSIVE Multiplied(_, _)
\* let mut x = Complex::one(); for _ in 0..n { x *= *self; }
Multiplied(z, n) == IF n = 0 THEN COne ELSE CMul(Multiplied(z, n - 1), z)

RECURSIVE Squared(_, _)
\* let mut x = *self; for _ in 0..l { x *= x; }
Squared(z, l) ==
    IF l = 0 THEN z ELSE LET x == Squared(z, l - 1) IN CMul(x, x)

RECURSIVE Pow(_, _)
\* Complex::pow(&self, n): Ok(value), or Panic when unwrap() meets None
Pow(z, n) ==
    IF 0 = n THEN Ok(COne)
    ELSE IF n < optimization THEN Ok(Multiplied(z, n))
    ELSE LET next == CheckedNextPowerOfTwo(n)
         IN IF ~IsPowerOfTwo(n) /\ ~next.some THEN Panic
            ELSE LET l == IF IsPowerOfTwo(n) THEN TrailingZeros(n)
                          ELSE TrailingZeros(next.value) - 1
                     r == IF IsPowerOfTwo(n) THEN 0 ELSE n - Pow2(l)
                     x == Squared(z, l)
                     low == Pow(z, r)
                 IN IF low.status = "panic" THEN Panic ELSE Ok(CMul(low.value, x))

\* Complex::nth_root_of_unity(n) for the n whose angle 2*PI/n is a whole
\* number of quarter turns (n = 1, 2, 4), and n = 0
NthRootOfUnity(n) ==
    IF 0 = n THEN COne ELSE CMulReal(CNew(CosQ(4 \div n), SinQ(4 \div n)), 1)

\* z.pow(n)
CallPow ==
    /\ call.fn = "pow"
    /\ ret = Pending
    /\ ret' = Pow(call.z, call.ints[1])
    /\ UNCHANGED <<call, engine>>

\* bases of norm 1 (the roots of unity that are exact here, and -i), which
\* any exponent leaves small, and bases that grow with the exponent
UnitBases == {NthRootOfUnity(n) : n \in {0, 1, 2, 4}} \cup {CNeg(CI)}
GrowingBases == {CZero, CNew(1, 1), CNew(1, 2), CNew(0 - 2, 1)}

\* 2 x 2 matrices of f64, and the 4 x 4 gate of a pair of them:
\* Gate::<f64>::from_slice of the row-major slice of T,
\* T[j + 2k, jj + 2kk] = A[j, jj] * B[k, kk]
Real2x2 == {MatrixOf(2, e) : e \in {<<1, 2, 3, 4>>, <<0, 1, 1, 0>>, <<5, 0, 7, 1>>}}
TwoQubitSlice(A, B) ==
    [p \in 1..16 |->
        LET row == (p - 1) \div 4
            col == (p - 1) % 4
        IN Get(A, row % 2, col % 2) * Get(B, row \div 2, col \div 2)]
TwoQubitGates ==
    {GateFromSlice(TwoQubitSlice(A, B)) : A \in Real2x2, B \in Real2x2} \cup {CXGate}

\* (qubit0, qubit1, num) with num >= 2 and both qubits below num
QubitPairs ==
    {qqn \in (0..(MaxQubits - 1)) \X (0..(MaxQubits - 1)) \X (2..MaxQubits) :
        qqn[1] < qqn[3] /\ qqn[2] < qqn[3]}

\* enlarge_two_opt(&gate, qubit0, qubit1, num), num >= 2 and both qubits
\* below num: index2 has assert!(i1 != i2)
CallEnlargeTwoOpt ==
    /\ call.fn = "enlarge_two_opt"
    /\ ret = Pending
    /\ ret' = IF call.ints[1] = call.ints[2] THEN Panic
              ELSE Ok(enlarge_two_opt(call.gate, call.ints[1], call.ints[2], call.ints[3]))
    /\ UNCHANGED <<call, engine>>

\* the most bits of an index handed to index1 and index2 on their own
MaxIndexBits == 4

\* index1(b, i, k)
CallIndex1 ==
    /\ call.fn = "index1"
    /\ ret = Pending
    /\ ret' = Ok(index1(call.ints[1], call.ints[2], call.ints[3]))
    /\ UNCHANGED <<call, engine>>

\* index2(b1, i1, b2, i2, k): assert!(i1 != i2)
CallIndex2 ==
    /\ call.fn = "index2"
    /\ ret = Pending
    /\ ret' = IF call.ints[2] = call.ints[4] THEN Panic
              ELSE Ok(index2(call.ints[1], call.ints[2], call.ints[3], call.ints[4],
                             call.ints[5]))
    /\ UNCHANGED <<call, engine>>

\* m[(x, y)]: the slice index x + y * size is bounds-checked
CallIndex ==
    /\ call.fn = "index"
    /\ ret = Pending
    /\ ret' = IF call.ints[1] + call.ints[2] * call.m.size >= Len(call.m.elements)
              THEN Panic
              ELSE Ok(Index(call.m, call.ints[1], call.ints[2]))
    /\ UNCHANGED <<call, engine>>

\* m[(x, y)] = z: the matrix after the write
CallIndexMut ==
    /\ call.fn = "index_mut"
    /\ ret = Pending
    /\ ret' = IF call.ints[1] + call.ints[2] * call.m.size >= Len(call.m.elements)
              THEN Panic
              ELSE Ok(IndexMut(call.m, call.ints[1], call.ints[2], call.z))
    /\ UNCHANGED <<call, engine>>

\* gate[(x, y)]
CallGateIndex ==
    /\ call.fn = "gate_index"
    /\ ret = Pending
    /\ ret' = IF call.ints[1] + call.ints[2] * call.gate.matrix.size
                     >= Len(call.gate.matrix.elements)
              THEN Panic
              ELSE Ok(GateIndex(call.gate, call.ints[1], call.ints[2]))
    /\ UNCHANGED <<call, engine>>

\* gate[(x, y)] = value: the gate after the write
CallGateIndexMut ==
    /\ call.fn = "gate_index_mut"
    /\ ret = Pending
    /\ ret' = IF call.ints[1] + call.ints[2] * call.gate.matrix.size
                     >= Len(call.gate.matrix.elements)
              THEN Panic
              ELSE Ok(GateIndexMut(call.gate, call.ints[1], call.ints[2], call.ints[3]))
    /\ UNCHANGED <<call, engine>>

\* m == other: assert_eq!(self.size, other.size)
CallEq ==
    /\ call.fn = "eq"
    /\ ret = Pending
    /\ ret' = IF call.m.size # call.other.size THEN Panic
              ELSE Ok(Eq(call.m, call.other))
    /\ UNCHANGED <<call, engine>>

\* m.approx_eq(&other)
CallApproxEq ==
    /\ call.fn = "approx_eq"
    /\ ret = Pending
    /\ ret' = Ok(ApproxEq(call.m, call.other))
    /\ UNCHANGED <<call, engine>>

\* the matrices compared: the generic ones, and each with its last cell changed
ComparedMatrices ==
    GenericMatrices
    \cup {Set(m, m.size - 1, m.size - 1, CZero) : m \in {g \in GenericMatrices : g.size >= 2}}

\* the calls tried
Calls ==
    {CallOf("new_from_row_slice", sl, EmptyMatrix, EmptyMatrix, <<>>, EmptyGate, CZero) :
        sl \in ComplexSlices}
    \cup {CallOf("from_slice", sl, EmptyMatrix, EmptyMatrix, <<>>, EmptyGate, CZero) :
              sl \in {t \in ComplexSlices : Len(t) >= 1}}
    \cup {CallOf("kronecker", <<>>, a, b, <<>>, EmptyGate, CZero) :
              a \in Matrices, b \in Matrices}
    \cup {CallOf("embed", <<>>, m, other, <<at_i, at_j>>, EmptyGate, CZero) :
              m \in GenericMatrices, other \in GenericMatrices,
              at_i \in 0..MaxDim, at_j \in 0..MaxDim}
    \cup {CallOf(fn, <<>>, m, EmptyMatrix, p, EmptyGate, CZero) :
              fn \in {"permute_rows", "permute_columns"},
              m \in GenericMatrices, p \in PermutationArgs}
    \cup {CallOf("dot", <<>>, m, EmptyMatrix, v, EmptyGate, CZero) :
              m \in OperatorMatrices, v \in RealVectors}
    \cup {CallOf("pow", <<>>, EmptyMatrix, EmptyMatrix, <<n>>, EmptyGate, z) :
              z \in UnitBases, n \in 0..WordMax}
    \cup {CallOf("pow", <<>>, EmptyMatrix, EmptyMatrix, <<n>>, EmptyGate, z) :
              z \in GrowingBases, n \in 0..MaxExponent}
    \cup {CallOf("enlarge_two_opt", <<>>, EmptyMatrix, EmptyMatrix, qqn, gate, CZero) :
              gate \in TwoQubitGates, qqn \in QubitPairs}
    \* the value written through an index is in no cell of the matrix or gate
    \cup {CallOf(fn, <<>>, m, EmptyMatrix, <<x, y>>, EmptyGate, CNew(-1, -1)) :
              fn \in {"index", "index_mut"}, m \in GenericMatrices,
              x \in 0..MaxDim, y \in 0..MaxDim}
    \cup {CallOf(fn, <<>>, EmptyMatrix, EmptyMatrix, <<x, y, -1>>, gate, CZero) :
              fn \in {"gate_index", "gate_index_mut"}, gate \in TwoQubitGates,
              x \in 0..4, y \in 0..4}
    \cup {CallOf(fn, <<>>, m, other, <<>>, EmptyGate, CZero) :
              fn \in {"eq", "approx_eq"}, m \in ComparedMatrices,
              other \in ComparedMatrices}
    \cup {CallOf("index1", <<>>, EmptyMatrix, EmptyMatrix, <<b, i, k>>, EmptyGate, CZero) :
              b \in 0..1, i \in 0..MaxIndexBits, k \in 0..(Pow2(MaxIndexBits) - 1)}
    \cup {CallOf("index2", <<>>, EmptyMatrix, EmptyMatrix, <<b1, i1, b2, i2, k>>,
                 EmptyGate, CZero) :
              b1 \in 0..1, i1 \in 0..(MaxIndexBits - 1),
              b2 \in 0..1, i2 \in 0..(MaxIndexBits - 1),
              k \in 0..(Pow2(MaxIndexBits - 2) - 1)}

LibInit ==
    /\ input = [ok |-> FALSE, circuit |-> NoEngineCircuit]
    /\ circuit = NoEngineCircuit
    /\ number_of_qubits = 0
    /\ number_of_operations = 0
    /\ unitary_state = MatrixOf(0, <<>>)
    /\ result = InitialResult
    /\ pc = "library"
    /\ j = 0
    /\ returns = <<>>
    /\ call \in Calls
    /\ ret = Pending

LibNext ==
    \/ CallNewFromRowSlice
    \/ CallFromSlice
    \/ CallKronecker
    \/ CallEmbed
    \/ CallPermuteRows
    \/ CallPermuteColumns
    \/ CallDot
    \/ CallPow
    \/ CallEnlargeTwoOpt
    \/ CallIndex1
    \/ CallIndex2
    \/ CallIndex
    \/ CallIndexMut
    \/ CallGateIndex
    \/ CallGateIndexMut
    \/ CallEq
    \/ CallApproxEq

LibSpec == LibInit /\ [][LibNext]_vars

\* ================================================================ claims
\* The tensor product read by (row, col):
\* (A (x) B)[r1*size(B)+r2, c1*size(B)+c2] = A[r1,c1] * B[r2,c2]
Tensor(a, b) ==
    MatrixOf(a.size * b.size,
        [p \in 1..(a.size * b.size * a.size * b.size) |->
            LET row == (p - 1) \div (a.size * b.size)
                col == (p - 1) % (a.size * b.size)
            IN CMul(Get(a, row \div b.size, col \div b.size),
                    Get(b, row % b.size, col % b.size))])

IdentityC(size) == Identity(size, CZero, COne)

\* the operation run() is about to process, and whether it is processing one
AtOperation == pc = "running" /\ j < number_of_operations
Current == CQasm(circuit, j)
\* the first position below number_of_operations whose operation run() has
\* no arm for (number_of_operations when there is none)
FirstUnknown ==
    LET bad == {k \in 0..(number_of_operations - 1) : CQasm(circuit, k).name \notin Recognized}
    IN IF bad = {} THEN number_of_operations
       ELSE CHOOSE k \in bad : \A l \in bad : k <= l
Constructed == pc \in {"ready", "running", "returned"}
WellFormedCounts ==
    /\ circuit.number_of_qubits # Malformed
    /\ circuit.number_of_operations = Len(circuit.qasm)

\* C1: a CX step leaves new_state = E x S, E the enlargement of the CX gate
\* to n qubits as the LEFT operand.
C1_CXLeftMultiplies ==
    [][(AtOperation /\ Current.name = "CX") =>
          unitary_state' =
              MatMulRealLeft(enlarge_two_opt(CXGate, Current.qubit_indices[1],
                                             Current.qubit_indices[2], number_of_qubits),
                             unitary_state)]_vars

\* C2: a U step with 2x2 gate G on qubit q leaves
\* new_state = (identity(2^(n-q-1)) (x) G (x) identity(2^q)) x S, the tensor
\* product read by (row, col).
C2_SingleEnlargementIsTensor ==
    [][(AtOperation /\ Current.name = "U") =>
          LET q == Current.qubit_indices[1]
              G == UGate(Current.params[1], Current.params[2], Current.params[3]).matrix
          IN unitary_state' =
                 MatMul(Tensor(IdentityC(Pow2(number_of_qubits - q - 1)),
                               Tensor(G, IdentityC(Pow2(q)))),
                        unitary_state)]_vars

\* a U step with a non-symmetric gate has just been applied to a unitary
\* that an earlier U step had already changed, on more than one qubit
C2_Witness ==
    /\ pc = "running"
    /\ j = 2
    /\ number_of_qubits >= 2
    /\ circuit.qasm[1].name = "U"
    /\ circuit.qasm[2].name = "U"
    /\ circuit.qasm[2].params = <<1, 1, 0>>
    /\ circuit.qasm[2].qubit_indices # circuit.qasm[1].qubit_indices

\* C3: an operation of unrecognized kind at position j makes run() return
\* status ERROR at once, the unitary untouched, and the cursor never moves
\* past such a position, so no later operation is applied.
C3_UnknownStopsRun ==
    /\ [](Constructed => j <= FirstUnknown)
    /\ [][(AtOperation /\ Current.name \notin Recognized) =>
            /\ pc' = "returned"
            /\ result'.status = "ERROR"
            /\ returns' = Append(returns, result')
            /\ unitary_state' = unitary_state
            /\ j' = j]_vars

C3_Witness ==
    /\ pc = "returned"
    /\ result.status = "ERROR"
    /\ Current.name = "snapshot"
    /\ j + 1 < number_of_operations
    /\ CQasm(circuit, j + 1).name = "U"

\* C4 (as stated): a list whose operations are all recognized kinds or
\* barriers ends with status DONE.
C4_BarrierIgnored ==
    (pc = "returned"
     /\ \A k \in 0..(number_of_operations - 1) :
            CQasm(circuit, k).name \in Recognized \cup {"barrier"})
    => result.status = "DONE"

\* C4 (amended): a barrier is not recognized; when the first operation run()
\* has no arm for is a barrier, run() stops there with status ERROR, and the
\* cursor never moves past it.
C4_BarrierStopsRun ==
    (Constructed /\ FirstUnknown < number_of_operations
     /\ CQasm(circuit, FirstUnknown).name = "barrier")
    => /\ j <= FirstUnknown
       /\ pc = "returned" => (result.status = "ERROR" /\ j = FirstUnknown)

C4_Witness ==
    /\ pc = "returned"
    /\ result.status = "ERROR"
    /\ Current.name = "barrier"
    /\ j >= 1
    /\ CQasm(circuit, 0).name = "U"

\* the list with its measure and reset operations removed
Dropped(qasm) == SelectSeq(qasm, LAMBDA op : op.name \notin {"measure", "reset"})

\* C5: what run() returns on a new engine equals what it returns for the
\* same list with all measure and reset operations removed, and it leaves
\* the same running unitary.
C5_MeasureResetDropped ==
    (pc = "returned" /\ WellFormedCounts /\ Len(returns) = 1)
    => LET kept == Dropped(circuit.qasm)
           stripped == CircuitOf(number_of_qubits, Len(kept), kept)
           other == RunTimes(stripped, Len(kept), number_of_qubits, 1)
       IN /\ returns[1] = other.result
          /\ unitary_state = other.unitary_state

C5_Witness ==
    /\ pc = "returned"
    /\ WellFormedCounts
    /\ Len(returns) = 1
    /\ result.status = "DONE"
    /\ \E k \in 1..Len(circuit.qasm) : circuit.qasm[k].name \in {"measure", "reset"}
    /\ \E k \in 1..Len(circuit.qasm) : circuit.qasm[k].name = "U"

\* C6: when every processed operation is of a recognized kind, run() returns
\* DONE with the unitary as 4^n values, element (row, col) of the running
\* unitary at position row * 2^n + col.
C6_RowMajorResult ==
    (pc = "returned" /\ FirstUnknown = number_of_operations)
    => LET N == Pow2(number_of_qubits)
           flat == result.data.unitary
       IN /\ result.status = "DONE"
          /\ returns[Len(returns)] = result
          /\ flat.tag = "array"
          /\ Len(flat.items) = 4 ^ number_of_qubits
          /\ \A row \in 0..(N - 1), col \in 0..(N - 1) :
                 flat.items[row * N + col + 1] = Get(unitary_state, row, col)

C6_Witness ==
    /\ pc = "returned"
    /\ result.status = "DONE"
    /\ number_of_qubits = 2
    /\ \E row \in 0..3, col \in 0..3 :
           Get(unitary_state, row, col) # Get(unitary_state, col, row)

\* C7: a result with status ERROR carries the empty placeholder as its
\* unitary, whatever was composed before the unrecognized operation.
C7_ErrorHasNoUnitary ==
    (pc = "returned" /\ result.status = "ERROR")
    => /\ result.data.unitary = EmptyObject
       /\ returns[Len(returns)].data.unitary = EmptyObject

C7_Witness ==
    /\ pc = "returned"
    /\ result.status = "ERROR"
    /\ j >= 1
    /\ unitary_state # IdentityC(Pow2(number_of_qubits))

MalformedCounts(c) ==
    c.number_of_qubits = Malformed \/ c.number_of_operations = Malformed

\* C8 (as stated): from an input whose qubit count or operation count is
\* missing or malformed no engine is created.
C8_MalformedCountsRejected ==
    MalformedCounts(input.circuit) => pc \in {"new", "failed"}

\* C8 (amended): construction does not fail on a missing or malformed count;
\* the engine is created with 5 qubits for a bad qubit count and 0
\* operations for a bad operation count, its unitary sized 2^n.
C8_MalformedCountsDefault ==
    (Constructed /\ input.ok)
    => /\ number_of_qubits = IF input.circuit.number_of_qubits = Malformed
                             THEN 5 ELSE input.circuit.number_of_qubits
       /\ number_of_operations = IF input.circuit.number_of_operations = Malformed
                                 THEN 0 ELSE input.circuit.number_of_operations
       /\ unitary_state.size = Pow2(number_of_qubits)
       /\ pc = "ready" => unitary_state = IdentityC(Pow2(number_of_qubits))

C8_Witness ==
    /\ pc = "ready"
    /\ input.circuit.number_of_qubits = Malformed
    /\ number_of_qubits = 5
    /\ unitary_state.size = 32

\* Hadamard-equivalent U on qubit 1, then CX with control 1 and target 0
Circuit9 == CircuitOf(2, 2, <<OpU(1, <<1, 0, 2>>), OpCX(1, 0)>>)

\* C9: for that 2-qubit list the first column of the returned unitary has
\* exactly two non-zero entries, both the same amplitude (1 in units of
\* 1/sqrt(2)).
C9_FirstColumnTwoEqualAmplitudes ==
    (pc = "returned" /\ circuit = Circuit9 /\ Len(returns) = 1)
    => LET items == returns[1].data.unitary.items
           nonzero == {row \in 0..3 : items[row * 4 + 1] # CZero}
       IN /\ returns[1].status = "DONE"
          /\ Cardinality(nonzero) = 2
          /\ \A row \in nonzero : items[row * 4 + 1] = COne

C9_Witness ==
    /\ pc = "returned"
    /\ circuit = Circuit9
    /\ Len(returns) = 1
    /\ result.status = "DONE"

\* C10: a second run() on the same engine returns the same status and the
\* same unitary as the first.
C10_RunRepeatable ==
    Len(returns) >= 2 => returns[2] = returns[1]

\* ------------------------------------------------- claims on library calls
Called(fn) == call.fn = fn /\ ret.status # "pending"
Returned(fn) == call.fn = fn /\ ret.status = "ok"
PerfectSquare(n) == \E s \in 0..n : s * s = n

\* C11: Gate::from_slice on a slice of 2^(2*s) elements returns a gate whose
\* size field is s, the number of qubits: 1 for 4 elements, 2 for 16.
C11_GateSizeIsQubitCount ==
    Called("from_slice")
    => \A s \in 0..ISqrt(MaxSliceLen) :
           Len(call.slice) = 4 ^ s => (ret.status = "ok" /\ ret.value.size = s)

\* C17 (as stated): on a slice whose length is not a perfect square
\* new_from_row_slice returns, without failing, the matrix of size
\* floor(sqrt(len)) holding the first size^2 elements in row-major order.
C17_RowSliceTruncatesSilently ==
    (Called("new_from_row_slice") /\ ~PerfectSquare(Len(call.slice)))
    => LET slice == call.slice
           size == CHOOSE s \in 0..Len(slice) : s * s <= Len(slice) /\ Len(slice) < (s + 1) * (s + 1)
       IN /\ ret.status = "ok"
          /\ ret.value.size = size
          /\ \A r \in 0..(size - 1), c \in 0..(size - 1) :
                 Get(ret.value, r, c) = slice[r * size + c + 1]

\* C17 (amended): on a slice whose length is not a perfect square
\* new_from_row_slice does not truncate, it fails and returns no matrix; on a
\* perfect-square length it returns the matrix of size sqrt(len) holding the
\* slice in row-major order.
C17_RowSliceFailsUnlessSquare ==
    Called("new_from_row_slice")
    => LET slice == call.slice
       IN IF PerfectSquare(Len(slice))
          THEN /\ ret.status = "ok"
               /\ ret.value.size * ret.value.size = Len(slice)
               /\ \A r \in 0..(ret.value.size - 1), c \in 0..(ret.value.size - 1) :
                      Get(ret.value, r, c) = slice[r * ret.value.size + c + 1]
          ELSE ret.status = "panic"

C17_Witness ==
    /\ Called("new_from_row_slice")
    /\ Len(call.slice) = 5
    /\ ret.status = "panic"

\* C12: kronecker(A, B) is the tensor product: R has size size(A)*size(B),
\* one element per cell, and
\* R.get(r1*size(B)+r2, c1*size(B)+c2) = A.get(r1,c1) * B.get(r2,c2).
C12_KroneckerIsTensor ==
    Returned("kronecker")
    => LET A == call.m
           B == call.other
           R == ret.value
       IN /\ R.size = A.size * B.size
          /\ Len(R.elements) = R.size * R.size
          /\ \A r1 \in 0..(A.size - 1), c1 \in 0..(A.size - 1),
                r2 \in 0..(B.size - 1), c2 \in 0..(B.size - 1) :
                 Get(R, r1 * B.size + r2, c1 * B.size + c2)
                     = CMul(Get(A, r1, c1), Get(B, r2, c2))

\* C13: kronecker is associative: kronecker(kronecker(A,B),C) equals
\* kronecker(A, kronecker(B,C)) element by element, for all A, B, C.
C13_KroneckerAssociative ==
    Returned("kronecker")
    => \A C \in Matrices :
           Kronecker(ret.value, C)
               = Kronecker(call.m, Kronecker(call.other, C))

\* C14: m.embed(other, i, j) with both offsets in range overwrites exactly
\* the block with top-left corner (i, j): m.get(i+x, j+y) = other.get(x, y)
\* afterwards, every element outside the block unchanged.
C14_EmbedAtRowAndColumn ==
    (Called("embed")
     /\ call.ints[1] + call.other.size <= call.m.size
     /\ call.ints[2] + call.other.size <= call.m.size)
    => LET m == call.m
           other == call.other
           at_i == call.ints[1]
           at_j == call.ints[2]
       IN /\ ret.status = "ok"
          /\ ret.value.size = m.size
          /\ \A r \in 0..(m.size - 1), c \in 0..(m.size - 1) :
                 Get(ret.value, r, c)
                     = IF /\ r - at_i \in 0..(other.size - 1)
                          /\ c - at_j \in 0..(other.size - 1)
                       THEN Get(other, r - at_i, c - at_j)
                       ELSE Get(m, r, c)

\* p is a bijection of 0..size-1, given as a vector
IsBijection(p, size) ==
    /\ Len(p) = size
    /\ {p[i] : i \in 1..Len(p)} = 0..(size - 1)
IsIdentityPermutation(p) == \A i \in 1..Len(p) : p[i] = i - 1

\* C15: for a bijection p, permute_rows(p) returns a matrix in which row i
\* of the source is row p[i], permute_columns(p) one in which column i of
\* the source is column p[i]; the source is left as it was, and the identity
\* permutation returns an equal matrix.
C15_PermuteMovesToTarget ==
    /\ [](\A fn \in {"permute_rows", "permute_columns"} :
            (Called(fn) /\ IsBijection(call.ints, call.m.size))
            => LET m == call.m
                   p == call.ints
               IN /\ ret.status = "ok"
                  /\ ret.value.size = m.size
                  /\ \A i \in 0..(m.size - 1), k \in 0..(m.size - 1) :
                         IF fn = "permute_rows"
                         THEN Get(ret.value, p[i + 1], k) = Get(m, i, k)
                         ELSE Get(ret.value, k, p[i + 1]) = Get(m, k, i)
                  /\ IsIdentityPermutation(p) => ret.value = m)
    /\ [][call.fn \in {"permute_rows", "permute_columns"} => call' = call]_vars

\* a cyclic permutation of three rows (not its own inverse) was applied
C15_Witness ==
    /\ Returned("permute_rows")
    /\ call.ints = <<1, 2, 0>>
    /\ call.m = TestMatrix(3, 1)

\* C16: permute_rows and permute_columns fail for every argument that is
\* not a bijection of 0..size-1 (wrong length, repeated index, index >= size)
\* and succeed for every argument that is one.
C16_PermutationRejectedUnlessBijection ==
    \A fn \in {"permute_rows", "permute_columns"} :
        Called(fn)
        => IF IsBijection(call.ints, call.m.size)
           THEN ret.status = "ok"
           ELSE ret.status = "panic"

\* permute_columns(vec![0, 0]) on a 2 x 2 matrix, as in
\* bad_column_permutation_test, has panicked
C16_Witness ==
    /\ Called("permute_columns")
    /\ call.m.size = 2
    /\ call.ints = <<0, 0>>
    /\ ret.status = "panic"

RECURSIVE RowTimesVector(_, _, _, _)
\* sum over j < n of M.get(k, j) * v[j]
RowTimesVector(M, v, k, n) ==
    IF n = 0 THEN CZero
    ELSE CAdd(RowTimesVector(M, v, k, n - 1), CMulReal(Get(M, k, n - 1), v[n]))

\* C18: for every operator matrix M of size N = 2^n and every real vector v
\* of length N, Matrix::dot(M, v) succeeds and returns a square matrix whose
\* row-major elements are the N sums over j of M.get(k, j) * v[j].
C18_DotSucceeds ==
    (Called("dot") /\ Len(call.ints) = call.m.size)
    => LET M == call.m
           v == call.ints
       IN /\ ret.status = "ok"
          /\ ret.value.size * ret.value.size = Len(ret.value.elements)
          /\ Len(ret.value.elements) = M.size
          /\ \A k \in 0..(M.size - 1) :
                 ret.value.elements[k + 1] = RowTimesVector(M, v, k, M.size)

RECURSIVE ProductOfCopies(_, _)
\* the product of n copies of z, 1 for n = 0
ProductOfCopies(z, n) == IF n = 0 THEN COne ELSE CMul(z, ProductOfCopies(z, n - 1))

\* C19: for every exponent n >= 0, pow(n) returns the product of exactly n
\* copies of self (1 for n = 0); hence a primitive n-th root of unity raised
\* to n is 1 for all n >= 1.
C19_PowIsProductOfCopies ==
    Called("pow")
    => /\ ret.status = "ok"
       /\ ret.value = ProductOfCopies(call.z, call.ints[1])
       /\ \A k \in {1, 2, 4} :
              (call.z = NthRootOfUnity(k) /\ call.ints[1] = k) => ret.value = COne

\* the single-qubit Gate<Complex> of a 2 x 2 matrix of f64
ComplexGateOf(A) == GateFromSlice([p \in 1..4 |-> CNew(A.elements[p], 0)])

\* C20: both enlargements encode the same basis ordering: for the 4 x 4 gate
\* of the slice of T, T[j+2k, jj+2kk] = A[j,jj] * B[k,kk], enlarge_two_opt on
\* distinct qubits q0, q1 < n gives, read by get(row, col), the same matrix
\* as enlarge_single_opt(A, q0, n) x enlarge_single_opt(B, q1, n).
C20_EnlargementsAgree ==
    Returned("enlarge_two_opt")
    => \A A \in Real2x2, B \in Real2x2 :
           call.gate = GateFromSlice(TwoQubitSlice(A, B))
           => LET q0 == call.ints[1]
                  q1 == call.ints[2]
                  n == call.ints[3]
                  product == MatMul(enlarge_single_opt(ComplexGateOf(A), q0, n),
                                    enlarge_single_opt(ComplexGateOf(B), q1, n))
              IN /\ ret.value.size = product.size
                 /\ \A row \in 0..(Pow2(n) - 1), col \in 0..(Pow2(n) - 1) :
                        CNew(Get(ret.value, row, col), 0) = Get(product, row, col)

\* two different non-symmetric matrices were placed on qubits 2 and 0 of 3
C20_Witness ==
    /\ Returned("enlarge_two_opt")
    /\ call.ints = <<2, 0, 3>>
    /\ call.gate = GateFromSlice(TwoQubitSlice(MatrixOf(2, <<1, 2, 3, 4>>),
                                               MatrixOf(2, <<5, 0, 7, 1>>)))

\* bit i of x, and x without its bit i (the bits above moved down by one)
Bit(x, i) == (x \div Pow2(i)) % 2
WithoutBit(x, i) == (x \div Pow2(i + 1)) * Pow2(i) + (x % Pow2(i))

\* C22: for distinct positions pos1, pos2 < n, bits b1, b2 and k < 2^(n-2),
\* index2(b1, pos1, b2, pos2, k) is below 2^n, has b1 at pos1 and b2 at pos2,
\* and its other n-2 bits in order are those of k, whichever position is the
\* larger, so exchanging the two (bit, position) pairs gives the same index;
\* with pos1 = pos2 the call fails.
C22_Index2InsertsBothBits ==
    Called("index2")
    => LET b1 == call.ints[1]
           pos1 == call.ints[2]
           b2 == call.ints[3]
           pos2 == call.ints[4]
           k == call.ints[5]
           hi == IF pos1 > pos2 THEN pos1 ELSE pos2
           lo == IF pos1 > pos2 THEN pos2 ELSE pos1
       IN IF pos1 = pos2 THEN ret.status = "panic"
          ELSE /\ ret.status = "ok"
               /\ Bit(ret.value, pos1) = b1
               /\ Bit(ret.value, pos2) = b2
               /\ WithoutBit(WithoutBit(ret.value, hi), lo) = k
               /\ \A n \in (hi + 1)..MaxIndexBits :
                      k < Pow2(n - 2) => ret.value < Pow2(n)
               /\ ret.value = index2(b2, pos2, b1, pos1, k)

\* the larger position came first and the bits differ
C22_Witness ==
    /\ Returned("index2")
    /\ call.ints = <<1, 3, 0, 1, 2>>

\* C23: index1(b, i, k) = r with r mod 2^i = k mod 2^i, bit i of r equal to
\* b and r >> (i+1) = k >> i; for fixed i, (b, k) -> r is a bijection from
\* {0,1} x [0, 2^m) onto [0, 2^(m+1)) for every m >= i.
C23_Index1InsertsBit ==
    Called("index1")
    => LET b == call.ints[1]
           i == call.ints[2]
           k == call.ints[3]
           r == ret.value
       IN /\ ret.status = "ok"
          /\ r % Pow2(i) = k % Pow2(i)
          /\ Bit(r, i) = b
          /\ r \div Pow2(i + 1) = k \div Pow2(i)
          /\ \A m \in i..MaxIndexBits :
                 k < Pow2(m)
                 => /\ r < Pow2(m + 1)
                    /\ \A b2 \in 0..1, k2 \in 0..(Pow2(m) - 1) :
                           index1(b2, i, k2) = r => (b2 = b /\ k2 = k)
                    /\ {index1(b2, i, k2) : b2 \in 0..1, k2 \in 0..(Pow2(m) - 1)}
                           = 0..(Pow2(m + 1) - 1)

\* a bit was inserted in the middle of an index with bits on both sides
C23_Witness ==
    /\ Returned("index1")
    /\ call.ints = <<0, 2, 15>>
    /\ ret.value = 27

\* x XOR (bit_c(x) << t): bit t of x flipped when bit c of x is set
ControlledNot(c, t, x) ==
    IF Bit(x, c) = 0 THEN x
    ELSE IF Bit(x, t) = 1 THEN x - Pow2(t) ELSE x + Pow2(t)

\* every cell is zero or one, one cell of each row and of each column is one
IsPermutationMatrix(m, zero, one) ==
    LET cells == 0..(m.size - 1)
    IN /\ \A x \in cells, y \in cells : Get(m, y, x) \in {zero, one}
       /\ \A y \in cells : Cardinality({x \in cells : Get(m, y, x) = one}) = 1
       /\ \A x \in cells : Cardinality({y \in cells : Get(m, y, x) = one}) = 1

\* every operation run() will read is a CX
OnlyCX == \A k \in 0..(number_of_operations - 1) : CQasm(circuit, k).name = "CX"

\* C21: for n >= 2 and distinct in-range control c and target t, in either
\* order, the enlargement E of the engine's CX gate has E.get(y, x) = 1
\* exactly when y = x XOR (bit_c(x) << t) and 0 otherwise, so each row and
\* each column of E holds exactly one 1, and a run of only CX operations
\* always leaves the running unitary a permutation matrix.
C21_CXIsControlledNot ==
    /\ (AtOperation /\ Current.name = "CX")
       => LET c == Current.qubit_indices[1]
              t == Current.qubit_indices[2]
              E == enlarge_two_opt(CXGate, c, t, number_of_qubits)
              cells == 0..(Pow2(number_of_qubits) - 1)
          IN /\ E.size = Pow2(number_of_qubits)
             /\ \A x \in cells, y \in cells :
                    Get(E, y, x) = IF y = ControlledNot(c, t, x) THEN 1 ELSE 0
             /\ IsPermutationMatrix(E, 0, 1)
    /\ (Constructed /\ OnlyCX)
       => IsPermutationMatrix(unitary_state, CZero, COne)

\* two CX operations have run on two qubits, one with the control below the
\* target and one with the control above it
C21_Witness ==
    /\ pc = "running"
    /\ j = 2
    /\ number_of_operations = 2
    /\ circuit.qasm = <<OpCX(0, 1), OpCX(1, 0)>>
    /\ unitary_state # IdentityC(4)
    /\ IsPermutationMatrix(unitary_state, CZero, COne)

\* C24: m[(row, col)] is the element m.get(row, col) for every matrix (and
\* every gate) and every in-range (row, col), and a write through
\* m[(row, col)] is observed by m.get(row, col) and by no other cell.
C24_TupleIndexIsGet ==
    /\ Called("index")
       => LET m == call.m
              row == call.ints[1]
              col == call.ints[2]
          IN (row < m.size /\ col < m.size)
             => ret.status = "ok" /\ ret.value = Get(m, row, col)
    /\ Called("index_mut")
       => LET m == call.m
              row == call.ints[1]
              col == call.ints[2]
              cells == 0..(m.size - 1)
          IN (row < m.size /\ col < m.size)
             => /\ ret.status = "ok"
                /\ \A r \in cells, c \in cells :
                       Get(ret.value, r, c) = IF r = row /\ c = col THEN call.z
                                              ELSE Get(m, r, c)
    /\ Called("gate_index")
       => LET m == call.gate.matrix
              row == call.ints[1]
              col == call.ints[2]
          IN (row < m.size /\ col < m.size)
             => ret.status = "ok" /\ ret.value = Get(m, row, col)
    /\ Called("gate_index_mut")
       => LET m == call.gate.matrix
              row == call.ints[1]
              col == call.ints[2]
              cells == 0..(m.size - 1)
          IN (row < m.size /\ col < m.size)
             => /\ ret.status = "ok"
                /\ \A r \in cells, c \in cells :
                       Get(ret.value.matrix, r, c) = IF r = row /\ c = col THEN call.ints[3]
                                                     ELSE Get(m, r, c)

\* C25: for two matrices of the same size, A == B is true exactly when all
\* size^2 corresponding elements are equal, the answer approx_eq gives.
C25_EqualityCoversWholeMatrix ==
    (Called("eq") /\ call.m.size = call.other.size)
    => /\ ret.status = "ok"
       /\ ret.value = (call.m.elements = call.other.elements)
       /\ ret.value = ApproxEq(call.m, call.other)

====
